---- MODULE Spec2Model ----
(***************************************************************************)
(* Model of the text-normalisation core of the utility library: the slug   *)
(* engine (isValidSlug, convertToSlug, generateUniqueSlug) and the name    *)
(* normaliser (isValidName, normalizeName), and of its sleep utility.      *)
(*                                                                         *)
(* A string is a sequence of characters; a character is a one-token TLA+   *)
(* string.  "U+00E9" stands for the precomposed e-acute and "U+0301" for   *)
(* the combining acute accent.  Regular expressions built at call time are *)
(* modelled by their pattern source (a sequence of characters) and by the  *)
(* way the engine reads that source: escapes, character ranges, negation.  *)
(***************************************************************************)
EXTENDS Integers, Sequences, FiniteSets, TLC

VARIABLES op, text, textType, separator, allowDots, allowedSpecialChars,
          existingSlugs, result, valid, thrown, lastIndex, caller, calls,
          params, dateNow, mathRandom, promise, error, timers,
          utilArgs, utilResult

\* the arguments of a call of a core function
args == <<text, textType, separator, allowDots, allowedSpecialChars, existingSlugs>>

\* who calls, and how many calls were made before
callers == <<caller, calls>>

\* the state of the text functions
textVars == <<args, result, valid, thrown, lastIndex, callers>>

\* a call of sleep: its parameters, the clock and the random number it
\* reads, the promise it returns, the timers it has scheduled
sleepVars == <<params, dateNow, mathRandom, promise, error, timers>>

\* a call of one of the other utilities (stdResponse, chunk, clamp, inRange,
\* the push notifications): its arguments and what it gives back
utilVars == <<utilArgs, utilResult>>

vars == <<op, textVars, sleepVars, utilVars>>

\* no call of another utility is made
UtilIdle ==
  /\ utilArgs = <<>>
  /\ utilResult = <<>>

----------------------------------------------------------------------------
(* Bounds of the model. *)

\* longest input text over the full alphabet
MaxLen == 3

\* longest input text over the reduced alphabet (alphanumeric, separators)
MaxRunLen == 5

\* longest existingSlugs array
MaxExisting == 3

\* callers of the core functions
NumCallers == 2

\* calls made one after the other
MaxCalls == 3

----------------------------------------------------------------------------
(* Characters. *)

\* UTF-16 code unit of a character, as the regex engine compares them in a range
Code(c) ==
  CASE c = " " -> 32
    [] c = "!" -> 33
    [] c = "-" -> 45
    [] c = "." -> 46
    [] c = "0" -> 48
    [] c = "1" -> 49
    [] c = "2" -> 50
    [] c = "3" -> 51
    [] c = "4" -> 52
    [] c = "5" -> 53
    [] c = "6" -> 54
    [] c = "7" -> 55
    [] c = "8" -> 56
    [] c = "9" -> 57
    [] c = "A" -> 65
    [] c = "Z" -> 90
    [] c = "\\" -> 92
    [] c = "]" -> 93
    [] c = "^" -> 94
    [] c = "_" -> 95
    [] c = "a" -> 97
    [] c = "b" -> 98
    [] c = "e" -> 101
    [] c = "z" -> 122
    [] c = "U+00E9" -> 233
    [] c = "U+0301" -> 769

\* every character a text, an option or an intermediate string can hold
AllChars ==
  {" ", "!", "-", ".", "0", "1", "2", "3", "4", "5", "6", "7", "8", "9",
   "A", "Z", "\\", "]", "^", "_", "a", "b", "e", "z", "U+00E9", "U+0301"}

\* String.prototype.toLowerCase on one character
LowerChar(c) == CASE c = "A" -> "a" [] c = "Z" -> "z" [] OTHER -> c

\* String.prototype.normalize('NFD') on one character
NFDChar(c) == IF c = "U+00E9" THEN <<"e", "U+0301">> ELSE <<c>>

\* the characters String.prototype.trim removes and \s matches
WhiteSpace == {" "}

\* the class of combining diacritical marks, U+0300 to U+036F
CombiningMarks == {c \in AllChars : Code(c) >= 768 /\ Code(c) <= 879}

Strings(A, n) == UNION {[1..k -> A] : k \in 0..n}

----------------------------------------------------------------------------
(* String primitives of the runtime. *)

RECURSIVE Flatten(_)
Flatten(ss) == IF ss = <<>> THEN <<>> ELSE Head(ss) \o Flatten(Tail(ss))

toLowerCase(s) == [i \in 1..Len(s) |-> LowerChar(s[i])]

RECURSIVE TrimLeft(_, _)
TrimLeft(s, cls) ==
  IF s # <<>> /\ Head(s) \in cls THEN TrimLeft(Tail(s), cls) ELSE s

RECURSIVE TrimRight(_, _)
TrimRight(s, cls) ==
  IF s # <<>> /\ s[Len(s)] \in cls
  THEN TrimRight(SubSeq(s, 1, Len(s) - 1), cls)
  ELSE s

\* String.prototype.trim
trim(s) == TrimRight(TrimLeft(s, WhiteSpace), WhiteSpace)

normalizeNFD(s) == Flatten([i \in 1..Len(s) |-> NFDChar(s[i])])

\* s.replace(/[cls]/g, '')
RemoveIn(s, cls) == SelectSeq(s, LAMBDA c : c \notin cls)

\* s.replace(/c/g, rep) for a single literal character c
ReplaceChar(s, c, rep) ==
  Flatten([i \in 1..Len(s) |-> IF s[i] = c THEN rep ELSE <<s[i]>>])

\* length of the longest prefix of s made of characters of cls
RECURSIVE RunLen(_, _)
RunLen(s, cls) ==
  IF s # <<>> /\ Head(s) \in cls THEN 1 + RunLen(Tail(s), cls) ELSE 0

\* s cut into its maximal runs of characters of cls and its other characters
RECURSIVE Runs(_, _)
Runs(s, cls) ==
  IF s = <<>> THEN <<>>
  ELSE LET n == RunLen(s, cls) IN
       IF n > 0
       THEN <<SubSeq(s, 1, n)>> \o Runs(SubSeq(s, n + 1, Len(s)), cls)
       ELSE <<(<<Head(s)>>)>> \o Runs(Tail(s), cls)

\* a piece of Runs(s, cls) that /[cls]{min,}/ matches
IsMatch(seg, cls, min) == seg[1] \in cls /\ Len(seg) >= min

----------------------------------------------------------------------------
(* Regular expressions built from caller input. *)

\* s.replace(/[set]/g, '\\$&'): a backslash before every character of set
EscapeWith(s, set) ==
  Flatten([i \in 1..Len(s) |-> IF s[i] \in set THEN <<"\\", s[i]>> ELSE <<s[i]>>])

\* the characters between two class atoms, bounds included
RangeTable ==
  [lo \in AllChars |->
     [hi \in AllChars |-> {c \in AllChars : Code(lo) <= Code(c) /\ Code(c) <= Code(hi)}]]

RangeChars(lo, hi) == RangeTable[lo][hi]

\* the members of the class body read from position i: an atom is a character
\* or a backslash and the character it escapes; atom '-' atom is a range
RECURSIVE ClassMembers(_, _)
ClassMembers(body, i) ==
  IF i > Len(body) THEN {}
  ELSE LET esc1 == body[i] = "\\" /\ i + 1 <= Len(body)
           a1   == IF esc1 THEN body[i + 1] ELSE body[i]
           j    == IF esc1 THEN i + 2 ELSE i + 1
       IN IF j + 1 <= Len(body) /\ body[j] = "-"
          THEN LET esc2 == body[j + 1] = "\\" /\ j + 2 <= Len(body)
                   a2   == IF esc2 THEN body[j + 2] ELSE body[j + 1]
                   k    == IF esc2 THEN j + 3 ELSE j + 2
               IN RangeChars(a1, a2) \cup ClassMembers(body, k)
          ELSE {a1} \cup ClassMembers(body, j)

\* the characters new RegExp('[' + body + ']') matches
ClassSet(body) ==
  IF body # <<>> /\ Head(body) = "^"
  THEN AllChars \ ClassMembers(body, 2)
  ELSE ClassMembers(body, 1)

\* the literal atoms of a pattern source outside a class (every metacharacter
\* of the source is escaped, so an atom is a character or an escaped character)
RECURSIVE PatternAtoms(_)
PatternAtoms(src) ==
  IF src = <<>> THEN <<>>
  ELSE IF Head(src) = "\\" /\ Len(src) >= 2
       THEN <<src[2]>> \o PatternAtoms(SubSeq(src, 3, Len(src)))
       ELSE <<Head(src)>> \o PatternAtoms(Tail(src))

\* new RegExp(src + '+') throws SyntaxError (nothing to repeat) on an empty src
PlusPatternThrows(src) == PatternAtoms(src) = <<>>

\* length of the match of atoms[1..n-1] atoms[n]+ at the start of s, 0 if none
PlusMatchLen(s, atoms) ==
  LET n == Len(atoms) IN
  IF Len(s) >= n /\ SubSeq(s, 1, n - 1) = SubSeq(atoms, 1, n - 1)
  THEN LET r == RunLen(SubSeq(s, n, Len(s)), {atoms[n]}) IN
       IF r > 0 THEN n - 1 + r ELSE 0
  ELSE 0

\* s.replace(new RegExp(src + '+', 'g'), rep)
RECURSIVE ReplacePlus(_, _, _)
ReplacePlus(s, atoms, rep) ==
  IF s = <<>> THEN <<>>
  ELSE LET m == PlusMatchLen(s, atoms) IN
       IF m > 0
       THEN rep \o ReplacePlus(SubSeq(s, m + 1, Len(s)), atoms, rep)
       ELSE <<Head(s)>> \o ReplacePlus(Tail(s), atoms, rep)

\* ^[a-z0-9]+(?:[sep][a-z0-9]+)*$ : st is "start", "word" or "sep"
RECURSIVE MatchSegments(_, _, _, _)
MatchSegments(s, st, word, sep) ==
  IF s = <<>> THEN st = "word"
  ELSE IF Head(s) \in word THEN MatchSegments(Tail(s), "word", word, sep)
       ELSE IF st = "word" /\ Head(s) \in sep
            THEN MatchSegments(Tail(s), "sep", word, sep)
            ELSE FALSE

----------------------------------------------------------------------------
(* Arguments that are not strings, and the pattern objects. *)

\* the values a caller can pass for the text: a string, undefined, null, or a
\* number, whose text is then what String(value) gives
JsTypes == {"string", "undefined", "null", "number"}

\* !value
isFalsy(type, t) ==
  \/ type \in {"undefined", "null"}
  \/ type = "number" /\ t = <<"0">>
  \/ type = "string" /\ t = <<>>

\* variant: the type of the argument is not looked at
rejectsInput_noTypeof(type, t) == isFalsy(type, t)

\* !text || typeof text !== 'string'
rejectsInput(type, t) == isFalsy(type, t) \/ type # "string"

\* variant: one pattern object with the g flag, made when the module loads
patternDecl_shared == [global |-> TRUE, perCall |-> FALSE]

\* const slugPattern = /^...$/ inside the function: no flag, and a new
\* object at every call
patternDecl == [global |-> FALSE, perCall |-> TRUE]

\* pattern.test(s) for a pattern anchored at both ends: matches says whether
\* the whole of s matches, li is the lastIndex the last test left on a shared
\* pattern object; a test with the g flag starts at lastIndex and moves it
regexTest(matches, len, decl, li) ==
  LET start == IF decl.perCall THEN 0 ELSE li IN
  IF ~decl.global THEN [ok |-> matches, lastIndex |-> start]
  ELSE IF start = 0 /\ matches THEN [ok |-> TRUE, lastIndex |-> len]
       ELSE [ok |-> FALSE, lastIndex |-> 0]

----------------------------------------------------------------------------
(* Numbers of the sleep utility.  A JavaScript number is NaN or a value; a  *)
(* field that is left out is undefined.  The values of the model are the    *)
(* multiples of 1/Scale, which a double holds exactly, and a value v is     *)
(* kept as the two digits of v * Scale in base Base, hi signed, so that     *)
(* 2147483647 and the values above it can be told apart.                    *)

Scale == 4

Base == 1048576

undefined == [kind |-> "undefined", hi |-> 0, lo |-> 0]

NaN == [kind |-> "NaN", hi |-> 0, lo |-> 0]

\* the number with hi * Base + lo parts of Scale
Carry(hi, lo) == [kind |-> "number", hi |-> hi + (lo \div Base), lo |-> lo % Base]

\* n / Scale, for an integer n
Parts(n) == Carry(0, n)

\* x * k, for an integer k of 0..2047
Times(x, k) ==
  IF x.kind # "number" THEN NaN ELSE Carry(x.hi * k, x.lo * k)

\* the integer n as a number
Number(n) == Times(Parts(n), Scale)

Plus(x, y) ==
  IF x.kind # "number" \/ y.kind # "number" THEN NaN
  ELSE Carry(x.hi + y.hi, x.lo + y.lo)

Minus(x, y) ==
  IF x.kind # "number" \/ y.kind # "number" THEN NaN
  ELSE Carry(x.hi - y.hi, x.lo - y.lo)

\* x < y: false when one side is NaN or undefined
Less(x, y) ==
  /\ x.kind = "number"
  /\ y.kind = "number"
  /\ (x.hi < y.hi \/ (x.hi = y.hi /\ x.lo < y.lo))

\* x > y
Greater(x, y) == Less(y, x)

\* x === 0
IsZero(x) == x.kind = "number" /\ x.hi = 0 /\ x.lo = 0

\* if (x): undefined, NaN and 0 are falsy
Truthy(x) == x.kind = "number" /\ ~IsZero(x)

\* x / k rounded down to a part of Scale, for an integer k of 1..2047
DividedBy(x, k) ==
  IF x.kind # "number" THEN NaN
  ELSE Carry(x.hi \div k, ((x.hi % k) * Base + x.lo) \div k)

MathMax0(x) ==
  IF x.kind # "number" THEN NaN
  ELSE IF Less(x, Parts(0)) THEN Parts(0) ELSE x

MathFloor_none(x) == x

MathFloor(x) == Times(DividedBy(x, Scale), Scale)

\* Math.random() * x, for the draw r / Scale of Math.random()
TimesRandom(r, x) == DividedBy(Times(x, r), Scale)

----------------------------------------------------------------------------
(* The sleep utility. *)

MAX_DELAY == 2147483647

\* a range {min, max} of params.random, or the absence of one
noRange == [present |-> FALSE, min |-> undefined, max |-> undefined]

Range(min, max) == [present |-> TRUE, min |-> min, max |-> max]

\* params.until and params.random when they are left out
noUntil == [present |-> FALSE, unixTimestamp |-> undefined]

noRandom ==
  [present |-> FALSE, milliseconds |-> noRange, seconds |-> noRange, minutes |-> noRange]

\* sleep() and sleep(null)
noParams(kind) ==
  [kind |-> kind, milliseconds |-> undefined, seconds |-> undefined,
   minutes |-> undefined, until |-> noUntil, random |-> noRandom]

\* the outcomes of the promise executor
rejected(message) == [promise |-> "rejected", error |-> message, timers |-> <<>>]

resolved == [promise |-> "resolved", error |-> "", timers |-> <<>>]

\* variant: no timer is scheduled for the pending promise
pendingOn_noTimer(delay) == [promise |-> "pending", error |-> "", timers |-> <<>>]

\* setTimeout(resolve, delay)
pendingOn(delay) == [promise |-> "pending", error |-> "", timers |-> <<delay>>]

\* !params || Object.keys(params).length === 0
isEmptyParams(p) ==
  \/ p.kind # "object"
  \/ /\ p.milliseconds.kind = "undefined"
     /\ p.seconds.kind = "undefined"
     /\ p.minutes.kind = "undefined"
     /\ ~p.until.present
     /\ ~p.random.present

\* params.until?.unixTimestamp
untilTimestamp(p) == IF p.until.present THEN p.until.unixTimestamp ELSE undefined

\* min < 0 || max < 0 || min > max
invalidRange(range) ==
  \/ Less(range.min, Parts(0))
  \/ Less(range.max, Parts(0))
  \/ Greater(range.min, range.max)

randomBetween_noMin(range, r) == TimesRandom(r, Minus(range.max, range.min))

\* Math.random() * (max - min) + min
randomBetween(range, r) == Plus(TimesRandom(r, Minus(range.max, range.min)), range.min)

\* the lines after the three modes: the limit, the zero delay, the timer
afterDelay(delayMs) ==
  IF Greater(delayMs, Number(MAX_DELAY))
  THEN rejected("Delay too large. Maximum delay is 2147483647ms")
  ELSE IF IsZero(delayMs) THEN resolved
  ELSE pendingOn(MathFloor(delayMs))

untilMode(p, clock) ==
  LET targetTime == Times(p.until.unixTimestamp, 1000)
      delayMs == MathMax0(Minus(targetTime, clock))
  IN IF IsZero(delayMs) THEN resolved ELSE afterDelay(delayMs)

randomMode(p, r) ==
  IF p.random.milliseconds.present
  THEN IF invalidRange(p.random.milliseconds)
       THEN rejected("Invalid random milliseconds range")
       ELSE afterDelay(randomBetween(p.random.milliseconds, r))
  ELSE IF p.random.seconds.present
  THEN IF invalidRange(p.random.seconds)
       THEN rejected("Invalid random seconds range")
       ELSE afterDelay(Times(randomBetween(p.random.seconds, r), 1000))
  ELSE IF p.random.minutes.present
  THEN IF invalidRange(p.random.minutes)
       THEN rejected("Invalid random minutes range")
       ELSE afterDelay(Times(Times(randomBetween(p.random.minutes, r), 60), 1000))
  ELSE rejected("Random delay type must be specified (milliseconds, seconds, or minutes)")

\* delayMs after the three += of the fixed mode
fixedDelay(p) ==
  LET afterMs == IF p.milliseconds.kind # "undefined"
                 THEN Plus(Parts(0), p.milliseconds) ELSE Parts(0)
      afterSeconds == IF p.seconds.kind # "undefined"
                      THEN Plus(afterMs, Times(p.seconds, 1000)) ELSE afterMs
  IN IF p.minutes.kind # "undefined"
     THEN Plus(afterSeconds, Times(Times(p.minutes, 60), 1000)) ELSE afterSeconds

fixedMode(p) ==
  IF p.milliseconds.kind # "undefined" /\ Less(p.milliseconds, Parts(0))
  THEN rejected("Milliseconds cannot be negative")
  ELSE IF p.seconds.kind # "undefined" /\ Less(p.seconds, Parts(0))
  THEN rejected("Seconds cannot be negative")
  ELSE IF p.minutes.kind # "undefined" /\ Less(p.minutes, Parts(0))
  THEN rejected("Minutes cannot be negative")
  ELSE IF /\ IsZero(fixedDelay(p))
          /\ p.milliseconds.kind = "undefined"
          /\ p.seconds.kind = "undefined"
          /\ p.minutes.kind = "undefined"
  THEN rejected("At least one delay parameter must be specified")
  ELSE afterDelay(fixedDelay(p))

\* variant: the random mode comes before the until mode
sleep_randomFirst(p, clock, r) ==
  IF isEmptyParams(p) THEN rejected("Sleep parameters cannot be empty")
  ELSE IF p.random.present THEN randomMode(p, r)
  ELSE IF Truthy(untilTimestamp(p)) THEN untilMode(p, clock)
  ELSE fixedMode(p)

\* the executor of the promise sleep returns: what it throws, it rejects with
sleep(p, clock, r) ==
  IF isEmptyParams(p) THEN rejected("Sleep parameters cannot be empty")
  ELSE IF Truthy(untilTimestamp(p)) THEN untilMode(p, clock)
  ELSE IF p.random.present THEN randomMode(p, r)
  ELSE fixedMode(p)

\* the parameters sleepUntil hands to sleep
sleepUntilParams(unixTimestamp) ==
  [kind |-> "object", milliseconds |-> undefined, seconds |-> undefined,
   minutes |-> undefined, random |-> noRandom,
   until |-> [present |-> TRUE, unixTimestamp |-> unixTimestamp]]

\* no call of sleep is made
SleepIdle ==
  /\ params = noParams("undefined")
  /\ dateNow = Parts(0)
  /\ mathRandom = 0
  /\ promise = "none"
  /\ error = ""
  /\ timers = <<>>

----------------------------------------------------------------------------
(* Slug engine. *)

Return(v) == [thrown |-> FALSE, value |-> v]
Throw == [thrown |-> TRUE, value |-> <<>>]

\* variant: the dot is a separator also without allowDots
slugPattern_dots(s) ==
  MatchSegments(s, "start", ClassSet(<<"a", "-", "z", "0", "-", "9">>), {"-", "."})

\* /^[a-z0-9]+(?:-[a-z0-9]+)*$/
slugPattern(s) ==
  MatchSegments(s, "start", ClassSet(<<"a", "-", "z", "0", "-", "9">>), {"-"})

\* /^[a-z0-9]+(?:[-.][a-z0-9]+)*$/
slugWithDotsPattern(s) ==
  MatchSegments(s, "start", ClassSet(<<"a", "-", "z", "0", "-", "9">>),
                ClassSet(<<"-", ".">>))

isValidSlug(slug, dots) ==
  IF slug = <<>> THEN FALSE
  ELSE IF dots THEN slugWithDotsPattern(slug) ELSE slugPattern(slug)

\* /[.*+?^${}()|[\]\\]/ : the metacharacters convertToSlug escapes in the
\* separator (those of them that are characters of the model)
SlugEscapeChars == {".", "^", "]", "\\"}

escapedSeparator(sep) == EscapeWith(sep, SlugEscapeChars)

\* lower case, trim, decompose, strip the combining marks
slugFolded(t) == RemoveIn(normalizeNFD(trim(toLowerCase(t))), CombiningMarks)

\* variant: the dots are left to the removal of the other characters
dotsToSeparator_skip(s, sep, dots) == s

\* if (!allowDots) slug = slug.replace(/\./g, separator)
dotsToSeparator(s, sep, dots) == IF ~dots THEN ReplaceChar(s, ".", sep) ELSE s

\* up to and including the removal of the characters outside the class
slugStripped(t, sep, dots) ==
  LET s1 == slugFolded(t)
      s2 == dotsToSeparator(s1, sep, dots)
      segs == Runs(s2, WhiteSpace \cup {"_"})
      s3 == Flatten([i \in 1..Len(segs) |->
                       IF IsMatch(segs[i], WhiteSpace \cup {"_"}, 1) THEN sep ELSE segs[i]])
      keep == <<"^", "a", "-", "z", "0", "-", "9">> \o escapedSeparator(sep)
                \o (IF dots THEN <<"\\", ".">> ELSE <<>>)
  IN RemoveIn(s3, ClassSet(keep))

\* variant: the trim expression leaves out the dot
trimRegex_noDot(sep, dots) == ClassSet(escapedSeparator(sep))

\* the class of the trim expression
trimRegex(sep, dots) ==
  ClassSet(escapedSeparator(sep) \o (IF dots THEN <<"\\", ".">> ELSE <<>>))

\* variant: a collapsed run keeps its first character
collapseMatch_first(match, sep) == <<match[1]>>

\* (match) => match.includes('.') ? '.' : separator
collapseMatch(match, sep) ==
  IF \E i \in 1..Len(match) : match[i] = "." THEN <<".">> ELSE sep

convertToSlug(t, sep, dots) ==
  IF t = <<>> THEN Return(<<>>)
  ELSE LET s4 == slugStripped(t, sep, dots) IN
       IF dots
       THEN LET cls == ClassSet(escapedSeparator(sep) \o <<".">>)
                segs == Runs(s4, cls)
                s5 == Flatten([i \in 1..Len(segs) |->
                                 IF IsMatch(segs[i], cls, 1)
                                 THEN collapseMatch(segs[i], sep) ELSE segs[i]])
            IN Return(TrimRight(TrimLeft(s5, trimRegex(sep, dots)), trimRegex(sep, dots)))
       ELSE IF PlusPatternThrows(escapedSeparator(sep)) THEN Throw
            ELSE LET s5 == ReplacePlus(s4, PatternAtoms(escapedSeparator(sep)), sep)
                 IN Return(TrimRight(TrimLeft(s5, trimRegex(sep, dots)),
                                     trimRegex(sep, dots)))

\* String(counter): the decimal digits of a positive integer
RECURSIVE numberToString(_)
numberToString(n) ==
  LET digit == <<"0", "1", "2", "3", "4", "5", "6", "7", "8", "9">>[(n % 10) + 1]
  IN IF n < 10 THEN <<digit>> ELSE numberToString(n \div 10) \o <<digit>>

\* variant: only the last element is looked at
includes_last(arr, x) == arr # <<>> /\ arr[Len(arr)] = x

\* Array.prototype.includes
includes(arr, x) == \E i \in 1..Len(arr) : arr[i] = x

\* the while loop of generateUniqueSlug, entered with counter
RECURSIVE uniqueSlugFrom(_, _, _, _)
uniqueSlugFrom(baseSlug, existing, sep, counter) ==
  LET uniqueSlug == baseSlug \o sep \o numberToString(counter) IN
  IF includes(existing, uniqueSlug)
  THEN uniqueSlugFrom(baseSlug, existing, sep, counter + 1)
  ELSE uniqueSlug

\* variant: the suffix 1 is taken without looking it up
generateUniqueSlug_noLoop(baseSlug, existing, sep) ==
  IF ~includes(existing, baseSlug) THEN baseSlug
  ELSE baseSlug \o sep \o numberToString(1)

\* variant: the counter starts at 2
generateUniqueSlug_fromTwo(baseSlug, existing, sep) ==
  IF ~includes(existing, baseSlug) THEN baseSlug
  ELSE uniqueSlugFrom(baseSlug, existing, sep, 2)

\* how many times the body of the while loop runs, from the counter on
RECURSIVE loopIterations(_, _, _, _)
loopIterations(baseSlug, existing, sep, counter) ==
  IF includes(existing, baseSlug \o sep \o numberToString(counter))
  THEN 1 + loopIterations(baseSlug, existing, sep, counter + 1)
  ELSE 0

\* variant: the returned slug is recorded in the caller's array
existingSlugsAfter_push(existing, uniqueSlug) == Append(existing, uniqueSlug)

\* existingSlugs after the call: the array is only read, with includes
existingSlugsAfter(existing, uniqueSlug) == existing

generateUniqueSlug(baseSlug, existing, sep) ==
  IF ~includes(existing, baseSlug) THEN baseSlug
  ELSE uniqueSlugFrom(baseSlug, existing, sep, 1)

----------------------------------------------------------------------------
(* Name normaliser. *)

\* variant: the hyphen is not escaped
NameEscapeChars_noHyphen == {".", "^", "]", "\\"}

\* /[.*+?^${}()|[\]\\-]/ : the metacharacters the name functions escape in
\* every allowed special character (those of them that are characters of the
\* model)
NameEscapeChars == {".", "^", "]", "\\", "-"}

escapedChars(allowed) ==
  Flatten([i \in 1..Len(allowed) |-> EscapeWith(<<allowed[i]>>, NameEscapeChars)])

\* the source of [a-zA-Z0-9]
AlnumBody == <<"a", "-", "z", "A", "-", "Z", "0", "-", "9">>

\* variant: the word class of the slug pattern, lower case only
isValidName_lower(name, allowed) ==
  IF name = <<>> THEN FALSE
  ELSE MatchSegments(name, "start", ClassSet(<<"a", "-", "z", "0", "-", "9">>),
                     ClassSet(escapedChars(allowed)))

isValidName(name, allowed) ==
  IF name = <<>> THEN FALSE
  ELSE MatchSegments(name, "start", ClassSet(AlnumBody), ClassSet(escapedChars(allowed)))

\* variant: the text is lower-cased as for a slug
nameStripped_lower(t, allowed) ==
  RemoveIn(toLowerCase(trim(t)), ClassSet(<<"^">> \o AlnumBody \o escapedChars(allowed)))

\* after the removal of the characters that are neither alphanumeric nor allowed
nameStripped(t, allowed) ==
  RemoveIn(trim(t), ClassSet(<<"^">> \o AlnumBody \o escapedChars(allowed)))

\* variant: a collapsed run keeps its last character
collapseSpecial_last(match) == <<match[Len(match)]>>

\* (match) => match[0]
collapseSpecial(match) == <<match[1]>>

\* variant: the leading and trailing special characters stay
trimSpecial_none(s, special) == s

\* normalized.replace(/^[special]+|[special]+$/g, '')
trimSpecial(s, special) == TrimRight(TrimLeft(s, special), special)

normalizeName(t, allowed) ==
  IF t = <<>> THEN <<>>
  ELSE LET special == ClassSet(escapedChars(allowed))
           segs == Runs(nameStripped(t, allowed), special)
           collapsed == Flatten([i \in 1..Len(segs) |->
                                   IF IsMatch(segs[i], special, 2)
                                   THEN collapseSpecial(segs[i]) ELSE segs[i]])
       IN trimSpecial(collapsed, special)

----------------------------------------------------------------------------
(* Inputs of the slug engine. *)

SlugChars == {"a", "A", "1", "-", ".", "_", " ", "!", "U+00E9"}

SlugRunChars == {"a", "-", ".", "!"}

SlugTexts == Strings(SlugChars, MaxLen) \cup Strings(SlugRunChars, MaxRunLen)

Separators == {<<"-">>, <<"_">>, <<".">>, <<"A">>, <<>>}

InitSlug ==
  /\ op = "init"
  /\ textType = "string"
  /\ text \in SlugTexts
  /\ separator \in Separators
  /\ allowDots \in BOOLEAN
  /\ allowedSpecialChars = <<>>
  /\ existingSlugs = <<>>
  /\ result = <<>>
  /\ valid = FALSE
  /\ thrown = FALSE
  /\ lastIndex = 0
  /\ caller = 1
  /\ calls = 0
  /\ SleepIdle
  /\ UtilIdle

CallIsValidSlug ==
  /\ op = "init"
  /\ op' = "isValidSlug"
  /\ LET r == IF rejectsInput(textType, text) THEN [ok |-> FALSE, lastIndex |-> lastIndex]
              ELSE regexTest(isValidSlug(text, allowDots), Len(text), patternDecl,
                             lastIndex)
     IN /\ valid' = r.ok
        /\ lastIndex' = r.lastIndex
  /\ UNCHANGED <<args, result, thrown, callers, sleepVars, utilVars>>

CallConvertToSlug ==
  /\ op = "init"
  /\ op' = "convertToSlug"
  /\ LET r == IF rejectsInput(textType, text) THEN Return(<<>>)
              ELSE convertToSlug(text, separator, allowDots)
     IN /\ result' = r.value
        /\ thrown' = r.thrown
  /\ UNCHANGED <<args, valid, lastIndex, callers, sleepVars, utilVars>>

NextSlug == CallIsValidSlug \/ CallConvertToSlug

Spec == InitSlug /\ [][NextSlug]_vars

----------------------------------------------------------------------------
(* Inputs of generateUniqueSlug. *)

BaseSlugs == {<<"a">>, <<"a", "-", "1">>}

KnownSlugs ==
  {<<"a">>, <<"a", "-", "1">>, <<"a", "-", "2">>, <<"a", "-", "3">>,
   <<"a", "-", "4">>, <<"a", "_", "1">>, <<"a", "1">>, <<"a", "-", "1", "-", "1">>}

UniqueSeparators == {<<"-">>, <<"_">>, <<>>}

InitUnique ==
  /\ op = "init"
  /\ textType = "string"
  /\ text \in BaseSlugs
  /\ separator \in UniqueSeparators
  /\ allowDots = FALSE
  /\ allowedSpecialChars = <<>>
  /\ existingSlugs \in Strings(KnownSlugs, MaxExisting)
  /\ result = <<>>
  /\ valid = FALSE
  /\ thrown = FALSE
  /\ lastIndex = 0
  /\ caller = 1
  /\ calls = 0
  /\ SleepIdle
  /\ UtilIdle

CallGenerateUniqueSlug ==
  /\ op = "init"
  /\ op' = "generateUniqueSlug"
  /\ result' = generateUniqueSlug(text, existingSlugs, separator)
  /\ existingSlugs' = existingSlugsAfter(existingSlugs, result')
  /\ thrown' = FALSE
  /\ UNCHANGED <<text, textType, separator, allowDots, allowedSpecialChars,
               valid, lastIndex, callers, sleepVars, utilVars>>

NextUnique == CallGenerateUniqueSlug

SpecUnique == InitUnique /\ [][NextUnique]_vars

----------------------------------------------------------------------------
(* Inputs of the name normaliser. *)

NameChars == {"a", "A", "1", " ", ".", "-", "!", "^", "]"}

NameRunChars == {"A", " ", ".", "-"}

NameTexts == Strings(NameChars, MaxLen) \cup Strings(NameRunChars, MaxRunLen)

AllowedLists ==
  {<<>>, <<" ">>, <<" ", ".">>, <<" ", "-", "_", ".">>, <<"-", ".">>,
   <<"^", "]", "\\">>}

InitName ==
  /\ op = "init"
  /\ textType = "string"
  /\ text \in NameTexts
  /\ separator = <<>>
  /\ allowDots = FALSE
  /\ allowedSpecialChars \in AllowedLists
  /\ existingSlugs = <<>>
  /\ result = <<>>
  /\ valid = FALSE
  /\ thrown = FALSE
  /\ lastIndex = 0
  /\ caller = 1
  /\ calls = 0
  /\ SleepIdle
  /\ UtilIdle

CallIsValidName ==
  /\ op = "init"
  /\ op' = "isValidName"
  /\ LET r == IF rejectsInput(textType, text) THEN [ok |-> FALSE, lastIndex |-> lastIndex]
              ELSE regexTest(isValidName(text, allowedSpecialChars), Len(text),
                             patternDecl, lastIndex)
     IN /\ valid' = r.ok
        /\ lastIndex' = r.lastIndex
  /\ UNCHANGED <<args, result, thrown, callers, sleepVars, utilVars>>

CallNormalizeName ==
  /\ op = "init"
  /\ op' = "normalizeName"
  /\ result' = IF rejectsInput(textType, text) THEN <<>>
               ELSE normalizeName(text, allowedSpecialChars)
  /\ thrown' = FALSE
  /\ UNCHANGED <<args, valid, lastIndex, callers, sleepVars, utilVars>>

NextName == CallIsValidName \/ CallNormalizeName

SpecName == InitName /\ [][NextName]_vars

----------------------------------------------------------------------------
(* Calls with an empty text or a text that is not a string. *)

InvalidInputs ==
  {<<"string", <<>>>>, <<"undefined", <<>>>>, <<"null", <<>>>>,
   <<"number", <<"0">>>>, <<"number", <<"1", "2", "3">>>>}

InitInvalid ==
  /\ op = "init"
  /\ \E input \in InvalidInputs : textType = input[1] /\ text = input[2]
  /\ separator \in Separators
  /\ allowDots \in BOOLEAN
  /\ allowedSpecialChars \in AllowedLists
  /\ existingSlugs = <<>>
  /\ result = <<>>
  /\ valid = FALSE
  /\ thrown = FALSE
  /\ lastIndex = 0
  /\ caller = 1
  /\ calls = 0
  /\ SleepIdle
  /\ UtilIdle

NextInvalid ==
  CallIsValidSlug \/ CallConvertToSlug \/ CallIsValidName \/ CallNormalizeName

SpecInvalid == InitInvalid /\ [][NextInvalid]_vars

----------------------------------------------------------------------------
(* Several callers, whose calls follow one another in any order: a call is  *)
(* synchronous and runs to its end before the next one starts.              *)

Callers == 1..NumCallers

CallerTexts == {<<>>, <<"a", "-", "a">>, <<"A", " ", "a">>, <<"a", ".", ".", "a">>}

CallerExisting == {<<>>, << <<"a", "-", "a">>, <<"a", "-", "a", "-", "1">> >>}

CallerArgs ==
  /\ textType' = "string"
  /\ text' \in CallerTexts
  /\ separator' = <<"-">>
  /\ allowDots' \in BOOLEAN
  /\ allowedSpecialChars' \in {<<" ">>, <<" ", ".">>}
  /\ existingSlugs' \in CallerExisting

InitCallers ==
  /\ op = "init"
  /\ textType = "string"
  /\ text \in CallerTexts
  /\ separator = <<"-">>
  /\ allowDots \in BOOLEAN
  /\ allowedSpecialChars \in {<<" ">>, <<" ", ".">>}
  /\ existingSlugs \in CallerExisting
  /\ result = <<>>
  /\ valid = FALSE
  /\ thrown = FALSE
  /\ lastIndex = 0
  /\ caller \in Callers
  /\ calls = 0
  /\ SleepIdle
  /\ UtilIdle

\* the last call has returned; some caller makes the next one
NextCaller ==
  /\ op # "init"
  /\ calls < MaxCalls
  /\ op' = "init"
  /\ calls' = calls + 1
  /\ caller' \in Callers
  /\ CallerArgs
  /\ UNCHANGED <<result, valid, thrown, lastIndex, sleepVars, utilVars>>

NextCallers ==
  \/ CallIsValidSlug
  \/ CallConvertToSlug
  \/ CallGenerateUniqueSlug
  \/ CallIsValidName
  \/ CallNormalizeName
  \/ NextCaller

SpecCallers == InitCallers /\ [][NextCallers]_vars

----------------------------------------------------------------------------
(* Inputs of the sleep utility. *)

\* no call of a text function is made
TextIdle ==
  /\ text = <<>>
  /\ textType = "string"
  /\ separator = <<"-">>
  /\ allowDots = FALSE
  /\ allowedSpecialChars = <<" ">>
  /\ existingSlugs = <<>>
  /\ result = <<>>
  /\ valid = FALSE
  /\ thrown = FALSE
  /\ lastIndex = 0
  /\ caller = 1
  /\ calls = 0

\* 2147483648
AboveMaxDelay == Plus(Number(MAX_DELAY), Number(1))

MillisecondsValues ==
  {undefined, NaN, Number(-1), Number(0), Parts(2), Number(3), Number(MAX_DELAY),
   AboveMaxDelay}

SecondsValues == {undefined, Number(-1), Number(0), Number(2)}

MinutesValues == {undefined, Number(-1), Number(1), Number(40000)}

\* Date.now(), in milliseconds
Clocks == {Number(5000), Number(5500)}

\* unixTimestamp, in seconds
Timestamps ==
  {undefined, NaN, Number(0), Number(-1), Number(4), Number(5), Parts(21), Number(6),
   Number(3000000)}

Untils == {noUntil} \cup {[present |-> TRUE, unixTimestamp |-> t] : t \in Timestamps}

Ranges ==
  {Range(Number(0), Number(0)), Range(Number(1), Number(3)), Range(Parts(2), Parts(6)),
   Range(Number(-1), Number(1)), Range(Number(3), Number(1)), Range(NaN, Number(1)),
   Range(Number(MAX_DELAY), AboveMaxDelay), Range(Number(0), Number(4000000))}

Randoms ==
  {noRandom, [noRandom EXCEPT !.present = TRUE]}
    \cup {[noRandom EXCEPT !.present = TRUE, !.milliseconds = range] : range \in Ranges}
    \cup {[noRandom EXCEPT !.present = TRUE, !.seconds = range] : range \in Ranges}
    \cup {[noRandom EXCEPT !.present = TRUE, !.minutes = range] : range \in Ranges}
    \cup {[noRandom EXCEPT !.present = TRUE,
                           !.milliseconds = Range(Number(1), Number(3)),
                           !.seconds = Range(Number(3), Number(1))],
          [noRandom EXCEPT !.present = TRUE,
                           !.seconds = Range(Number(1), Number(3)),
                           !.minutes = Range(Number(-1), Number(1))]}

\* Math.random() is mathRandom / Scale: 0 <= Math.random() < 1
Draws == 0..(Scale - 1)

FixedParams ==
  {[noParams("object") EXCEPT !.milliseconds = ms, !.seconds = s, !.minutes = m] :
     ms \in MillisecondsValues, s \in SecondsValues, m \in MinutesValues}

\* fixed fields given next to until or random
MixedFixed ==
  {noParams("object"),
   [noParams("object") EXCEPT !.milliseconds = Number(-1)],
   [noParams("object") EXCEPT !.seconds = Number(2)]}

UntilParams ==
  {[fixed EXCEPT !.until = until, !.random = random] :
     fixed \in MixedFixed, until \in Untils \ {noUntil},
     random \in {noRandom, [noRandom EXCEPT !.present = TRUE,
                                            !.seconds = Range(Number(1), Number(3))]}}

RandomParams ==
  {[fixed EXCEPT !.until = until, !.random = random] :
     fixed \in MixedFixed, random \in Randoms \ {noRandom},
     until \in {noUntil, [present |-> TRUE, unixTimestamp |-> undefined],
                [present |-> TRUE, unixTimestamp |-> Number(0)]}}

SleepParams ==
  {noParams("undefined"), noParams("null")} \cup FixedParams \cup UntilParams
    \cup RandomParams

InitSleep ==
  /\ op = "init"
  /\ TextIdle
  /\ UtilIdle
  /\ params \in SleepParams
  /\ dateNow \in Clocks
  /\ mathRandom \in Draws
  /\ promise = "none"
  /\ error = ""
  /\ timers = <<>>

CallSleep ==
  /\ op = "init"
  /\ op' = "sleep"
  /\ LET r == sleep(params, dateNow, mathRandom)
     IN /\ promise' = r.promise
        /\ error' = r.error
        /\ timers' = r.timers
  /\ UNCHANGED <<params, dateNow, mathRandom, textVars, utilVars>>

CallSleepUntil ==
  /\ op = "init"
  /\ op' = "sleepUntil"
  /\ \E unixTimestamp \in Timestamps :
       /\ params' = sleepUntilParams(unixTimestamp)
       /\ LET r == sleep(params', dateNow, mathRandom)
          IN /\ promise' = r.promise
             /\ error' = r.error
             /\ timers' = r.timers
  /\ UNCHANGED <<dateNow, mathRandom, textVars, utilVars>>

\* the timer of line 116 fires and calls resolve
TimerFires ==
  /\ op \in {"sleep", "sleepUntil"}
  /\ timers # <<>>
  /\ op' = "timeout"
  /\ promise' = IF promise = "pending" THEN "resolved" ELSE promise
  /\ UNCHANGED <<params, dateNow, mathRandom, error, timers, textVars, utilVars>>

NextSleep == CallSleep \/ CallSleepUntil \/ TimerFires

SpecSleep == InitSleep /\ [][NextSleep]_vars

----------------------------------------------------------------------------
(* Vocabulary of the properties, stated without the regular expressions. *)

LowerLetters == {"a", "b", "e", "z"}
UpperLetters == {"A", "Z"}
Digits == {"0", "1", "2", "3", "4", "5", "6", "7", "8", "9"}
LowerAlnum == LowerLetters \cup Digits
Alnum == LowerLetters \cup UpperLetters \cup Digits

Elements(seq) == {seq[i] : i \in 1..Len(seq)}

\* s is non-empty, made of word and sep characters, begins and ends with a
\* word character and has no two adjacent sep characters
WellSeparated(s, word, sep) ==
  /\ Len(s) > 0
  /\ \A i \in 1..Len(s) : s[i] \in word \cup sep
  /\ s[1] \in word
  /\ s[Len(s)] \in word
  /\ \A i \in 1..(Len(s) - 1) : ~(s[i] \in sep /\ s[i + 1] \in sep)

SlugSeparatorClass(dots) == IF dots THEN {"-", "."} ELSE {"-"}

\* the last position of the run of cls characters of f that starts at i
RunEnd(f, cls, i) ==
  CHOOSE e \in i..Len(f) :
    /\ \A k \in i..e : f[k] \in cls
    /\ (e = Len(f) \/ f[e + 1] \notin cls)

----------------------------------------------------------------------------
(* Slug engine: properties. *)

\* C1 (as stated): for every separator and allowDots, a non-empty result of
\* convertToSlug is accepted by isValidSlug under the same allowDots.
C1_ValidForEverySeparator ==
  (op = "convertToSlug" /\ ~thrown /\ result # <<>>) => isValidSlug(result, allowDots)

\* C1 (amended): with the default separator '-' and either allowDots value, a
\* non-empty result of convertToSlug is accepted by isValidSlug under the same
\* allowDots.
C1_ValidForDefaultSeparator ==
  (op = "convertToSlug" /\ separator = <<"-">> /\ result # <<>>)
    => (~thrown /\ isValidSlug(result, allowDots))

C1_Witness ==
  /\ op = "convertToSlug"
  /\ separator = <<"-">>
  /\ allowDots
  /\ text = <<".", "a", "-", "!", "a">>
  /\ result = <<"a", "-", "a">>

\* C2: convertToSlug is idempotent: converting a returned slug again under
\* the same options returns the same slug.
C2_Idempotent ==
  (op = "convertToSlug" /\ ~thrown)
    => convertToSlug(result, separator, allowDots) = Return(result)

\* C4: isValidSlug returns true exactly for the non-empty strings of lower-case
\* letters, digits and separator-class characters that begin and end with a
\* letter or digit and have no two adjacent separator-class characters; the
\* class is {'-'} without allowDots and {'-', '.'} with it.
C4_IsValidSlugIff ==
  op = "isValidSlug"
    => (valid <=> WellSeparated(text, LowerAlnum, SlugSeparatorClass(allowDots)))

C4_Witness ==
  /\ op = "isValidSlug"
  /\ allowDots
  /\ text = <<"a", ".", "a", "-", "a">>
  /\ valid

\* C5: no call of a core function throws.
C5_NeverThrows == ~thrown

\* C9: with allowDots, the result of convertToSlug is the stripped text in
\* which every run of separator and dot characters between two kept
\* characters is one '.' when the run holds a dot, wherever it stands, and one
\* separator otherwise (the leading and the trailing run are dropped).
C9_DotWins ==
  (op = "convertToSlug" /\ allowDots /\ text # <<>>)
    => LET f == slugStripped(text, separator, TRUE)
           cls == Elements(separator) \cup {"."}
           Piece(i) ==
             IF f[i] \notin cls THEN <<f[i]>>
             ELSE IF i = 1 \/ f[i - 1] \in cls \/ RunEnd(f, cls, i) = Len(f) THEN <<>>
             ELSE IF \E k \in i..RunEnd(f, cls, i) : f[k] = "." THEN <<".">>
             ELSE separator
       IN ~thrown /\ result = Flatten([i \in 1..Len(f) |-> Piece(i)])

C9_Witness ==
  /\ op = "convertToSlug"
  /\ allowDots
  /\ separator = <<"-">>
  /\ text = <<"a", "-", ".", "a">>
  /\ result = <<"a", ".", "a">>

----------------------------------------------------------------------------
(* generateUniqueSlug: properties. *)

\* C3: the result is baseSlug when baseSlug is not in existingSlugs, otherwise
\* baseSlug + separator + N for the smallest N >= 1 whose composed string is
\* not in existingSlugs; the result is never in existingSlugs.
C3_UniqueSlug ==
  op = "generateUniqueSlug"
    => LET S == Elements(existingSlugs)
           Composed(n) == text \o separator \o numberToString(n)
       IN /\ result \notin S
          /\ IF text \notin S THEN result = text
             ELSE \E n \in 1..(Len(existingSlugs) + 1) :
                    /\ result = Composed(n)
                    /\ \A m \in 1..(n - 1) : Composed(m) \in S

C3_Witness ==
  /\ op = "generateUniqueSlug"
  /\ text = <<"a">>
  /\ separator = <<"-">>
  /\ existingSlugs = << <<"a", "-", "1">>, <<"a">>, <<"a", "-", "3">> >>
  /\ result = <<"a", "-", "2">>

----------------------------------------------------------------------------
(* Name normaliser: properties. *)

\* C6: isValidName returns true exactly for the non-empty strings of letters
\* of either case, digits and allowed special characters that begin and end
\* with a letter or digit and have no two adjacent allowed special
\* characters, equal or different.
C6_IsValidNameIff ==
  op = "isValidName"
    => (valid <=> WellSeparated(text, Alnum, Elements(allowedSpecialChars)))

C6_Witness ==
  /\ op = "isValidName"
  /\ allowedSpecialChars = <<" ", ".">>
  /\ text = <<"A", " ", ".", "A">>
  /\ ~valid

\* C7: normalizeName keeps every kept character as it is, case included, and
\* keeps of every run of allowed special characters its first character
\* only; the runs at the start and at the end are dropped.
C7_FirstOfRun ==
  op = "normalizeName"
    => LET special == Elements(allowedSpecialChars)
           f == SelectSeq(text, LAMBDA c : c \in Alnum \cup special)
           Piece(i) ==
             IF f[i] \in Alnum THEN <<f[i]>>
             ELSE IF i = 1 \/ f[i - 1] \in special \/ RunEnd(f, special, i) = Len(f)
                  THEN <<>>
                  ELSE <<f[i]>>
       IN result = Flatten([i \in 1..Len(f) |-> Piece(i)])

C7_Witness ==
  /\ op = "normalizeName"
  /\ allowedSpecialChars = <<" ", ".">>
  /\ text = <<"A", " ", ".", " ", "A">>
  /\ result = <<"A", " ", "A">>

\* C8: a non-empty result of normalizeName begins and ends with a letter or
\* digit, holds only letters, digits and allowed special characters, none of
\* these adjacent, and is accepted by isValidName under the same options.
C8_NormalizedIsValid ==
  (op = "normalizeName" /\ result # <<>>)
    => /\ WellSeparated(result, Alnum, Elements(allowedSpecialChars))
       /\ isValidName(result, allowedSpecialChars)

C8_Witness ==
  /\ op = "normalizeName"
  /\ allowedSpecialChars = <<"-", ".">>
  /\ text = <<".", "A", "-", ".", "A">>
  /\ result = <<"A", "-", "A">>

\* C10: the class built from allowedSpecialChars holds exactly the listed
\* characters: isValidName admits between two letters a character that is not
\* a letter or digit exactly when it is listed, and normalizeName keeps there
\* exactly the listed ones.
C10_ListedCharsAreLiteral ==
  LET listed == Elements(allowedSpecialChars)
      between == Len(text) = 3 /\ text[1] \in Alnum /\ text[3] \in Alnum
                   /\ text[2] \notin Alnum
  IN /\ (op \in {"isValidName", "normalizeName"})
          => ClassSet(escapedChars(allowedSpecialChars)) = listed
     /\ (op = "isValidName" /\ between) => (valid <=> text[2] \in listed)
     /\ (op = "isValidName" /\ valid) => Elements(text) \subseteq Alnum \cup listed
     /\ (op = "normalizeName" /\ between) => (result = text <=> text[2] \in listed)
     /\ (op = "normalizeName") => Elements(result) \subseteq Alnum \cup listed

C10_Witness ==
  /\ op = "isValidName"
  /\ allowedSpecialChars = <<" ", "-", "_", ".">>
  /\ text = <<"a", "!", "a">>
  /\ ~valid

----------------------------------------------------------------------------
(* Core functions: invalid input, frame and order of the calls. *)

\* C11: for an empty text or a text that is not a string, isValidSlug and
\* isValidName return false and convertToSlug and normalizeName return the
\* empty string, without throwing, under every options value.
C11_InvalidInput ==
  (textType # "string" \/ text = <<>>)
    => /\ op \in {"isValidSlug", "isValidName"} => ~valid
       /\ op \in {"convertToSlug", "normalizeName"} => (result = <<>> /\ ~thrown)

C11_Witness ==
  /\ op = "convertToSlug"
  /\ textType = "number"
  /\ text = <<"1", "2", "3">>
  /\ separator = <<>>
  /\ ~allowDots
  /\ result = <<>>
  /\ ~thrown

\* C12: without allowDots a dot of the text counts as white space does: it
\* becomes the separator before the collapse, and no dot is left in the
\* result unless the separator is itself a dot.
C12_DotsBecomeSeparators ==
  (op = "convertToSlug" /\ ~allowDots /\ textType = "string")
    => LET spaced == [i \in 1..Len(text) |-> IF text[i] = "." THEN " " ELSE text[i]]
       IN /\ convertToSlug(spaced, separator, FALSE) = [thrown |-> thrown, value |-> result]
          /\ (separator # <<".">> => "." \notin {result[i] : i \in 1..Len(result)})

C12_Witness ==
  /\ op = "convertToSlug"
  /\ ~allowDots
  /\ separator = <<"-">>
  /\ text = <<"a", ".", ".", "a">>
  /\ result = <<"a", "-", "a">>

\* C13: normalizeName returns a text that isValidName accepts under the same
\* options as it is, case included.
C13_ValidNameUnchanged ==
  (op = "normalizeName" /\ textType = "string" /\ isValidName(text, allowedSpecialChars))
    => result = text

C13_Witness ==
  /\ op = "normalizeName"
  /\ allowedSpecialChars = <<" ", "-", "_", ".">>
  /\ text = <<"A", "-", "A", ".", "A">>
  /\ result = text

\* C14: a call of generateUniqueSlug leaves existingSlugs, element by element
\* and in order, and everything else but its return value as it was.
C14_ExistingSlugsUntouched ==
  [][(op = "init" /\ op' = "generateUniqueSlug")
       => (existingSlugs' = existingSlugs /\ UNCHANGED <<text, textType, separator,
             allowDots, allowedSpecialChars, valid, lastIndex, callers, sleepVars, utilVars>>)]_vars

C14_Witness ==
  /\ op = "generateUniqueSlug"
  /\ existingSlugs = << <<"a">>, <<"a", "-", "1">> >>
  /\ text = <<"a">>
  /\ separator = <<"-">>
  /\ result = <<"a", "-", "2">>

\* C15: whatever calls were made before, by whichever caller, a call returns
\* what the same call returns when it is the only one made.
C15_SameResultAsAlone ==
  /\ op = "isValidSlug" => valid = isValidSlug(text, allowDots)
  /\ op = "isValidName" => valid = isValidName(text, allowedSpecialChars)
  /\ op = "convertToSlug"
       => [thrown |-> thrown, value |-> result] = convertToSlug(text, separator, allowDots)
  /\ op = "normalizeName" => result = normalizeName(text, allowedSpecialChars)
  /\ op = "generateUniqueSlug"
       => result = generateUniqueSlug(text, existingSlugs, separator)

C15_Witness ==
  /\ calls = 2
  /\ caller = 2
  /\ op = "isValidSlug"
  /\ text = <<"a", "-", "a">>
  /\ valid

----------------------------------------------------------------------------
(* The sleep utility: vocabulary of its properties. *)

\* x <= y, for two numbers
AtMost(x, y) == x.kind = "number" /\ y.kind = "number" /\ ~Less(y, x)

IsInteger(x) == x.kind = "number" /\ x.lo % Scale = 0

\* a fixed field that is left out counts for nothing
OrZero(x) == IF x.kind = "undefined" THEN Number(0) ELSE x

AbsentOrNotNegative(x) == x.kind = "undefined" \/ AtMost(Number(0), x)

\* milliseconds + 1000 * seconds + 60000 * minutes
FixedSum(p) ==
  Plus(OrZero(p.milliseconds),
       Plus(Times(OrZero(p.seconds), 1000), Times(Times(OrZero(p.minutes), 1000), 60)))

\* fixed fields only, each absent or >= 0, one present, total within the limit
FixedOnly(p) ==
  /\ p.kind = "object"
  /\ ~p.until.present
  /\ ~p.random.present
  /\ AbsentOrNotNegative(p.milliseconds)
  /\ AbsentOrNotNegative(p.seconds)
  /\ AbsentOrNotNegative(p.minutes)
  /\ \E x \in {p.milliseconds, p.seconds, p.minutes} : x.kind = "number"
  /\ AtMost(FixedSum(p), Number(MAX_DELAY))

Negative(x) == Less(x, Number(0))

\* the unit of params.random that decides the delay, "" when it names none
RandomUnit(p) ==
  IF p.random.milliseconds.present THEN "milliseconds"
  ELSE IF p.random.seconds.present THEN "seconds"
  ELSE IF p.random.minutes.present THEN "minutes"
  ELSE ""

\* x of a unit, in milliseconds
InMilliseconds(x, unit) ==
  IF unit = "milliseconds" THEN x
  ELSE IF unit = "seconds" THEN Times(x, 1000)
  ELSE Times(Times(x, 1000), 60)

\* random mode with 0 <= min <= max in the unit that decides
RandomModeValid(p) ==
  /\ p.kind = "object"
  /\ ~Truthy(untilTimestamp(p))
  /\ p.random.present
  /\ RandomUnit(p) # ""
  /\ AtMost(Number(0), p.random[RandomUnit(p)].min)
  /\ AtMost(p.random[RandomUnit(p)].min, p.random[RandomUnit(p)].max)

\* what the parameters are invalid for: empty, a negative fixed field, a
\* random range with min < 0, max < 0 or min > max, a random without unit
InvalidParams(p) ==
  \/ isEmptyParams(p)
  \/ Negative(p.milliseconds) \/ Negative(p.seconds) \/ Negative(p.minutes)
  \/ /\ p.random.present
     /\ \/ RandomUnit(p) = ""
        \/ \E unit \in {"milliseconds", "seconds", "minutes"} :
             /\ p.random[unit].present
             /\ \/ Negative(p.random[unit].min)
                \/ Negative(p.random[unit].max)
                \/ Less(p.random[unit].max, p.random[unit].min)

----------------------------------------------------------------------------
(* The sleep utility: properties. *)

\* C16: sleepUntil resolves its promise at once and schedules no timer for
\* every timestamp that is not in the future (unixTimestamp * 1000 <= now).
C16_PastResolvesImmediately ==
  (op = "sleepUntil" /\ AtMost(Times(params.until.unixTimestamp, 1000), dateNow))
    => (promise = "resolved" /\ timers = <<>>)

\* C17: with fixed fields only, each absent or >= 0, one of them present and
\* a sum of at most 2147483647 ms, sleep resolves at once without a timer
\* when the sum is 0, and otherwise schedules one timer of the sum rounded
\* down, stays pending until the timer fires and is resolved when it has.
C17_FixedDelay ==
  (op \in {"sleep", "timeout"} /\ FixedOnly(params))
    => IF IsZero(FixedSum(params))
       THEN op = "sleep" /\ promise = "resolved" /\ timers = <<>>
       ELSE /\ Len(timers) = 1
            /\ IsInteger(timers[1])
            /\ AtMost(timers[1], FixedSum(params))
            /\ Less(FixedSum(params), Plus(timers[1], Number(1)))
            /\ op = "sleep" => promise = "pending"
            /\ op = "timeout" => promise = "resolved"

C17_Witness ==
  /\ op = "timeout"
  /\ params = [noParams("object") EXCEPT !.milliseconds = Number(3),
                                         !.seconds = Number(2),
                                         !.minutes = Number(1)]
  /\ timers = <<Number(62003)>>
  /\ promise = "resolved"

\* C18: sleep rejects its promise, and schedules no timer, when params is
\* empty, a fixed field is negative, a random range has min < 0, max < 0 or
\* min > max, or random names no unit.
C18_InvalidParamsReject ==
  (op = "sleep" /\ InvalidParams(params)) => (promise = "rejected" /\ timers = <<>>)

\* C19: every timer sleep schedules has a delay that is an integer of
\* 0..2147483647.
C19_TimerDelayInRange ==
  \A i \in 1..Len(timers) :
    /\ IsInteger(timers[i])
    /\ AtMost(Number(0), timers[i])
    /\ AtMost(timers[i], Number(MAX_DELAY))

\* C20 as stated: in random mode with 0 <= min <= max, whatever the draw,
\* the promise is not rejected and the delay waited lies between min and max
\* of the unit, so that the promise is resolved once the timer has fired.
C20_RandomDelayInRange ==
  (op \in {"sleep", "timeout"} /\ RandomModeValid(params))
    => LET range == params.random[RandomUnit(params)]
           least == InMilliseconds(range.min, RandomUnit(params))
           most == InMilliseconds(range.max, RandomUnit(params))
       IN /\ promise # "rejected"
          /\ timers = <<>> => (promise = "resolved" /\ IsZero(least))
          /\ timers # <<>> => (AtMost(least, timers[1]) /\ AtMost(timers[1], most))
          /\ op = "timeout" => promise = "resolved"

\* C20: in random mode with 0 <= min <= max and max of the unit at most
\* 2147483647 ms, whatever the draw, the promise is not rejected and the
\* delay waited is a whole number of milliseconds above min - 1 and at most
\* max of the unit; the promise is resolved once the timer has fired.
C20_RandomDelayFloored ==
  (/\ op \in {"sleep", "timeout"}
   /\ RandomModeValid(params)
   /\ AtMost(InMilliseconds(params.random[RandomUnit(params)].max, RandomUnit(params)),
             Number(MAX_DELAY)))
    => LET range == params.random[RandomUnit(params)]
           least == InMilliseconds(range.min, RandomUnit(params))
           most == InMilliseconds(range.max, RandomUnit(params))
       IN /\ promise # "rejected"
          /\ timers = <<>> => (promise = "resolved" /\ IsZero(least))
          /\ timers # <<>> => /\ Len(timers) = 1
                              /\ IsInteger(timers[1])
                              /\ Less(least, Plus(timers[1], Number(1)))
                              /\ AtMost(timers[1], most)
          /\ op = "timeout" => promise = "resolved"

C20_Witness ==
  /\ op = "timeout"
  /\ params.random.milliseconds = Range(Parts(2), Parts(6))
  /\ ~params.until.present
  /\ mathRandom = 0
  /\ timers = <<Number(0)>>
  /\ promise = "resolved"

----------------------------------------------------------------------------
(* The response envelopes of stdResponse.  A value is a record of its type *)
(* and its text; an envelope is a record whose fields are its keys.        *)

jsUndefined == [type |-> "undefined", value |-> ""]

jsString(s) == [type |-> "string", value |-> s]

jsObject(s) == [type |-> "object", value |-> s]

\* success: <T>(result: T) => ({ status: "success", result }); a second
\* argument is not a parameter of the function
stdResponseSuccess(value, message) == [status |-> "success", result |-> value]

\* error: (code, message?) => ({ status: "error", error: { code, message } });
\* a third argument is not a parameter of the function
stdResponseError(code, message, details) ==
  [status |-> "error", error |-> [code |-> code, message |-> message]]

ResponseResults == {jsObject("{id: 1}"), jsString("ok"), jsUndefined}

ResponseMessages ==
  {jsUndefined, jsString(""), jsString("User created successfully"),
   jsString("Invalid input")}

ResponseCodes == {"INTERNAL_ERROR", "VALIDATION_ERROR", "404"}

ResponseDetails == {jsUndefined, jsObject("{field: 'email'}"), jsString("invalid format")}

InitResponse ==
  /\ op = "init"
  /\ TextIdle
  /\ SleepIdle
  /\ utilArgs \in [result : ResponseResults, code : ResponseCodes,
                   message : ResponseMessages, details : ResponseDetails]
  /\ utilResult = <<>>

CallSuccess ==
  /\ op = "init"
  /\ op' = "success"
  /\ utilResult' = stdResponseSuccess(utilArgs.result, utilArgs.message)
  /\ UNCHANGED <<utilArgs, textVars, sleepVars>>

CallError ==
  /\ op = "init"
  /\ op' = "error"
  /\ utilResult' = stdResponseError(utilArgs.code, utilArgs.message, utilArgs.details)
  /\ UNCHANGED <<utilArgs, textVars, sleepVars>>

NextResponse == CallSuccess \/ CallError

SpecResponse == InitResponse /\ [][NextResponse]_vars

\* the envelope holds the key with the value
Holds(envelope, key, value) == key \in DOMAIN envelope /\ envelope[key] = value

\* C21: success(result, message) returns {status: 'success', message, result}
\* and error(code, message, details) returns {status: 'error', error: {code,
\* message}, details}: a message given to success and details given to error
\* are in the envelope returned.
C21_EnvelopeHoldsMessageAndDetails ==
  /\ op = "success"
       => /\ Holds(utilResult, "status", "success")
          /\ Holds(utilResult, "result", utilArgs.result)
          /\ utilArgs.message # jsUndefined => Holds(utilResult, "message", utilArgs.message)
  /\ op = "error"
       => /\ Holds(utilResult, "status", "error")
          /\ Holds(utilResult, "error", [code |-> utilArgs.code, message |-> utilArgs.message])
          /\ utilArgs.details # jsUndefined => Holds(utilResult, "details", utilArgs.details)

----------------------------------------------------------------------------
(* chunk. *)

\* longest array given to chunk
MaxArrayLen == 5

\* largest chunk size
MaxChunkSize == 3

\* array.slice(from, to), for 0 <= from <= to
slice(array, from, to) ==
  SubSeq(array, from + 1, IF to < Len(array) THEN to ELSE Len(array))

\* the for loop of chunk, entered with i: the chunks pushed from there on
RECURSIVE chunksFrom(_, _, _)
chunksFrom(array, size, i) ==
  IF i < Len(array)
  THEN <<slice(array, i, i + size)>> \o chunksFrom(array, size, i + size)
  ELSE <<>>

chunkThrows == [thrown |-> TRUE, value |-> "Chunk size must be greater than 0"]

\* variant: the empty array is looked at before the size
chunk_emptyFirst(array, size) ==
  IF Len(array) = 0 THEN Return(<<>>)
  ELSE IF size <= 0 THEN chunkThrows
  ELSE Return(chunksFrom(array, size, 0))

chunk(array, size) ==
  IF size <= 0 THEN chunkThrows
  ELSE IF Len(array) = 0 THEN Return(<<>>)
  ELSE Return(chunksFrom(array, size, 0))

ChunkArrays == Strings({"x", "y"}, MaxArrayLen)

ChunkSizes == (-1)..MaxChunkSize

InitChunk ==
  /\ op = "init"
  /\ TextIdle
  /\ SleepIdle
  /\ utilArgs \in [array : ChunkArrays, size : ChunkSizes]
  /\ utilResult = <<>>

CallChunk ==
  /\ op = "init"
  /\ op' = "chunk"
  /\ utilResult' = chunk(utilArgs.array, utilArgs.size)
  /\ UNCHANGED <<utilArgs, textVars, sleepVars>>

NextChunk == CallChunk

SpecChunk == InitChunk /\ [][NextChunk]_vars

\* C22: for a size >= 1 the chunks, put together in order, are the array;
\* every chunk but the last has size elements and the last has 1..size; an
\* empty array gives no chunk; a size <= 0 throws 'Chunk size must be greater
\* than 0' for every array, the empty one included.
C22_ChunksPartitionArray ==
  op = "chunk"
    => IF utilArgs.size <= 0
       THEN utilResult = [thrown |-> TRUE, value |-> "Chunk size must be greater than 0"]
       ELSE LET chunks == utilResult.value IN
            /\ ~utilResult.thrown
            /\ Flatten(chunks) = utilArgs.array
            /\ \A i \in 1..(Len(chunks) - 1) : Len(chunks[i]) = utilArgs.size
            /\ chunks # <<>> => Len(chunks[Len(chunks)]) \in 1..utilArgs.size
            /\ utilArgs.array = <<>> => chunks = <<>>

C22_Witness ==
  /\ op = "chunk"
  /\ utilArgs = [array |-> <<"x", "y", "y", "x", "x">>, size |-> 2]
  /\ utilResult = Return(<< <<"x", "y">>, <<"y", "x">>, <<"x">> >>)

----------------------------------------------------------------------------
(* clamp and inRange, on the numbers of the sleep utility. *)

\* a value whose typeof is not 'number'
notANumber == [kind |-> "string", hi |-> 0, lo |-> 0]

\* typeof x === 'number': NaN is of type number
typeofNumber(x) == x.kind \in {"number", "NaN"}

\* x >= y and x <= y: false when one side is NaN
GreaterEq(x, y) == x.kind = "number" /\ y.kind = "number" /\ ~Less(x, y)

LessEq(x, y) == x.kind = "number" /\ y.kind = "number" /\ ~Less(y, x)

MathMax(x, y) ==
  IF x.kind # "number" \/ y.kind # "number" THEN NaN
  ELSE IF Less(x, y) THEN y ELSE x

MathMin(x, y) ==
  IF x.kind # "number" \/ y.kind # "number" THEN NaN
  ELSE IF Less(y, x) THEN y ELSE x

throws(message) == [thrown |-> TRUE, value |-> message]

\* the two guards clamp and inRange start with: "" when they let the call pass
boundsError(number, lower, upper) ==
  IF ~typeofNumber(number) \/ ~typeofNumber(lower) \/ ~typeofNumber(upper)
  THEN "All arguments must be numbers"
  ELSE IF Greater(lower, upper)
  THEN "Lower bound must be less than or equal to upper bound"
  ELSE ""

\* variant: the upper bound is not applied
clamp_noUpper(number, lower, upper) ==
  IF boundsError(number, lower, upper) # ""
  THEN throws(boundsError(number, lower, upper))
  ELSE Return(MathMax(number, lower))

clamp(number, lower, upper) ==
  IF boundsError(number, lower, upper) # ""
  THEN throws(boundsError(number, lower, upper))
  ELSE Return(MathMin(MathMax(number, lower), upper))

inRange(number, lower, upper) ==
  IF boundsError(number, lower, upper) # ""
  THEN throws(boundsError(number, lower, upper))
  ELSE Return(GreaterEq(number, lower) /\ LessEq(number, upper))

ClampValues ==
  {undefined, notANumber, NaN, Number(-1), Number(0), Parts(2), Number(1), Number(3)}

InitClamp ==
  /\ op = "init"
  /\ TextIdle
  /\ SleepIdle
  /\ utilArgs \in [number : ClampValues, lower : ClampValues, upper : ClampValues]
  /\ utilResult = <<>>

CallClamp ==
  /\ op = "init"
  /\ op' = "clamp"
  /\ utilResult' = clamp(utilArgs.number, utilArgs.lower, utilArgs.upper)
  /\ UNCHANGED <<utilArgs, textVars, sleepVars>>

CallInRange ==
  /\ op = "init"
  /\ op' = "inRange"
  /\ utilResult' = inRange(utilArgs.number, utilArgs.lower, utilArgs.upper)
  /\ UNCHANGED <<utilArgs, textVars, sleepVars>>

NextClamp == CallClamp \/ CallInRange

SpecClamp == InitClamp /\ [][NextClamp]_vars

\* x === y, for two numbers
StrictEq(x, y) == x.kind = "number" /\ y.kind = "number" /\ x = y

\* an argument is not of type number, or lower > upper
BadBounds(a) ==
  \/ \E x \in {a.number, a.lower, a.upper} : x.kind \notin {"number", "NaN"}
  \/ Less(a.upper, a.lower)

\* what the claim says of clamp(n, lower, upper) = r
ClampedWithin(a, r) ==
  /\ ~r.thrown
  /\ LessEq(a.lower, r.value)
  /\ LessEq(r.value, a.upper)
  /\ StrictEq(r.value, a.number) <=> inRange(a.number, a.lower, a.upper) = Return(TRUE)
  /\ clamp(r.value, a.lower, a.upper) = r

\* C23 as stated: for arguments of type number with lower <= upper, clamp
\* returns r with lower <= r <= upper, r is n exactly when inRange is true,
\* and clamp of r is r; clamp and inRange throw when lower > upper or an
\* argument is not of type number.
C23_ClampWithinBounds ==
  /\ (op \in {"clamp", "inRange"} /\ BadBounds(utilArgs)) => utilResult.thrown
  /\ (/\ op = "clamp"
      /\ typeofNumber(utilArgs.number)
      /\ LessEq(utilArgs.lower, utilArgs.upper))
       => ClampedWithin(utilArgs, utilResult)

\* C23: the same for a number that is not NaN.
C23_ClampWithinBoundsUnlessNaN ==
  /\ (op \in {"clamp", "inRange"} /\ BadBounds(utilArgs)) => utilResult.thrown
  /\ (/\ op = "clamp"
      /\ utilArgs.number.kind = "number"
      /\ LessEq(utilArgs.lower, utilArgs.upper))
       => ClampedWithin(utilArgs, utilResult)

C23_Witness ==
  /\ op = "clamp"
  /\ utilArgs = [number |-> Number(3), lower |-> Number(0), upper |-> Number(1)]
  /\ utilResult = Return(Number(1))

----------------------------------------------------------------------------
(* The push notifications.  The outcome of axios.post is a response (a 2xx *)
(* status and a body), an error with a response (another status and a      *)
(* body), or an error without one (the network failed).  A text is a       *)
(* sequence of words, and a search in a text is a search for the words of   *)
(* the pattern next to each other.                                          *)

\* String.prototype.toLowerCase on one word
LowerWord(w) ==
  CASE w = "Rate" -> "rate"
    [] w = "RATE" -> "rate"
    [] w = "Limit" -> "limit"
    [] w = "No" -> "no"
    [] w = "Subscribers" -> "subscribers"
    [] w = "Not" -> "not"
    [] w = "Active" -> "active"
    [] OTHER -> w

lowerWords(words) == [i \in 1..Len(words) |-> LowerWord(words[i])]

\* String.prototype.includes
includesWords(words, pattern) ==
  \E i \in 0..(Len(words) - Len(pattern)) : SubSeq(words, i + 1, i + Len(pattern)) = pattern

\* an element of the errors array: no element, null, a text, or a value of
\* another type
noElement == [type |-> "undefined", words |-> <<>>]

nullElement == [type |-> "null", words |-> <<>>]

textElement(words) == [type |-> "string", words |-> words]

otherElement(type) == [type |-> type, words |-> <<>>]

\* body.errors: left out, an array (of which the first element counts), an
\* object with or without invalid_aliases.external_id, or a string
noErrors == [kind |-> "undefined", first |-> noElement, idsKind |-> "undefined", ids |-> <<>>]

errorsArray(first) == [noErrors EXCEPT !.kind = "array", !.first = first]

errorsObject(idsKind, ids) == [noErrors EXCEPT !.kind = "object", !.idsKind = idsKind, !.ids = ids]

errorsString == [noErrors EXCEPT !.kind = "string"]

\* body.id
noId == [type |-> "undefined", text |-> ""]

idOf(t) == [type |-> "string", text |-> t]

\* a body: null, a string, or an object with its id and its errors
nullBody == [kind |-> "null", id |-> noId, errors |-> noErrors]

stringBody == [kind |-> "string", id |-> noId, errors |-> noErrors]

objectBody(id, errors) == [kind |-> "object", id |-> id, errors |-> errors]

\* what the async function gives back: a promise resolved with an envelope, or
\* a promise rejected with what was thrown and not caught
resolvesTo(envelope) == [settled |-> "resolved", value |-> envelope]

rejectsWith(thrownError) == [settled |-> "rejected", value |-> thrownError]

\* errors?.invalid_aliases?.external_id, "undefined" when a link is missing
externalIdKind(errors) == IF errors.kind = "object" THEN errors.idsKind ELSE "undefined"

\* value.length of an array or of a string
lengthOf(errors) == Len(errors.ids)

\* msg.toLowerCase().includes(pattern) for one of the patterns
mentions(msg, patterns) == \E pattern \in patterns : includesWords(lowerWords(msg), pattern)

subscriberPatterns ==
  {<<"no", "subscribers">>, <<"not", "subscribed">>, <<"no", "active", "subscriptions">>}

\* the branch of the array errors, lines 64-80: msg is errors[0] ?? ""
arrayErrors(first, unknownCode, unknownMessage) ==
  IF first.type \notin {"undefined", "null", "string"}
  THEN rejectsWith("TypeError: msg.toLowerCase is not a function")
  ELSE LET msg == first.words IN
       IF mentions(msg, {<<"rate", "limit">>})
       THEN resolvesTo(stdResponseError("rate_limit_exceeded", msg, jsUndefined))
       ELSE IF mentions(msg, subscriberPatterns)
       THEN resolvesTo(stdResponseError("no_active_subscribers_found", msg, jsUndefined))
       ELSE resolvesTo(stdResponseError(unknownCode,
                         IF msg # <<>> THEN msg ELSE unknownMessage, jsUndefined))

\* the error of the statuses 401 and 403
credentialsError ==
  resolvesTo(stdResponseError("oneSignal_credentials_incorrect",
               <<"Invalid OneSignal App ID or API Key">>, jsUndefined))

\* error?.response?.data?.errors
caughtErrors(hasResponse, body) ==
  IF hasResponse /\ body.kind = "object" THEN body.errors ELSE noErrors

\* the catch block of pushNotificationToSpecificUsers after the status,
\* lines 64-90
specificBodyErrors(errors) ==
  IF errors.kind = "array"
  THEN arrayErrors(errors.first, "unknown_OneSignal_error", <<"Contact Developer">>)
  ELSE IF externalIdKind(errors) = "array"
  THEN resolvesTo(stdResponseError("invalid_external_user_ids",
                    <<"External IDs not found in OneSignal:">> \o errors.ids, jsUndefined))
  ELSE IF externalIdKind(errors) = "string" /\ lengthOf(errors) > 0
  THEN rejectsWith("TypeError: invalidIds.join is not a function")
  ELSE resolvesTo(stdResponseError("unknown_OneSignal_error", <<"Contact Developer">>,
                    jsUndefined))

\* variant: an array of error messages is looked at before the status
specificCatch_bodyFirst(hasResponse, status, body) ==
  IF caughtErrors(hasResponse, body).kind = "array"
  THEN specificBodyErrors(caughtErrors(hasResponse, body))
  ELSE IF hasResponse /\ status \in {401, 403} THEN credentialsError
  ELSE specificBodyErrors(caughtErrors(hasResponse, body))

\* the catch block of pushNotificationToSpecificUsers, lines 53-91; what is
\* caught has a response (status, body) or has none
specificCatch(hasResponse, status, body) ==
  IF hasResponse /\ status \in {401, 403} THEN credentialsError
  ELSE specificBodyErrors(caughtErrors(hasResponse, body))

\* variant: one invalid ID is enough for the error
allInvalid_any(invalidCount, requestedCount) == invalidCount > 0

\* invalidIds.length > 0 && invalidIds.length === externalUserIds.length
allInvalid(invalidCount, requestedCount) ==
  invalidCount > 0 /\ invalidCount = requestedCount

\* the try block of pushNotificationToSpecificUsers after the request came
\* back with a response, lines 37-52; a TypeError in it is caught at line 53
specificTry(body, externalUserIds) ==
  IF body.kind = "null" THEN specificCatch(FALSE, 0, nullBody)
  ELSE IF body.id.type = "string" /\ body.id.text # ""
  THEN IF externalIdKind(body.errors) # "undefined"
          /\ allInvalid(lengthOf(body.errors), Len(externalUserIds))
       THEN IF externalIdKind(body.errors) = "array"
            THEN resolvesTo(stdResponseError("invalid_external_user_ids",
                   <<"All external IDs not found in OneSignal:">> \o body.errors.ids,
                   jsUndefined))
            ELSE specificCatch(FALSE, 0, nullBody)
       ELSE resolvesTo(stdResponseSuccess([id |-> body.id.text], jsUndefined))
  ELSE resolvesTo(stdResponseError("ONESIGNAL_ERROR",
                    <<"Notification failed: no ID returned">>, jsUndefined))

pushNotificationToSpecificUsers(http, externalUserIds) ==
  IF http.kind = "response" THEN specificTry(http.body, externalUserIds)
  ELSE specificCatch(http.kind = "error", http.status, http.body)

\* the catch block of pushNotificationToAllUsers, src/src/time/index.ts
allUsersCatch(hasResponse, status, body) ==
  IF hasResponse /\ status \in {401, 403} THEN credentialsError
  ELSE IF caughtErrors(hasResponse, body).kind = "array"
  THEN arrayErrors(caughtErrors(hasResponse, body).first, "ONESIGNAL_ERROR",
                   <<"Unknown OneSignal error">>)
  ELSE resolvesTo(stdResponseError("ONESIGNAL_ERROR", <<"Unknown OneSignal error">>,
                    jsUndefined))

pushNotificationToAllUsers(http) ==
  IF http.kind = "response"
  THEN IF http.body.kind = "null" THEN allUsersCatch(FALSE, 0, nullBody)
       ELSE IF http.body.id.type = "string" /\ http.body.id.text # ""
       THEN resolvesTo(stdResponseSuccess([id |-> http.body.id.text], jsUndefined))
       ELSE resolvesTo(stdResponseError("ONESIGNAL_ERROR",
                         <<"Notification failed: no ID returned">>, jsUndefined))
  ELSE allUsersCatch(http.kind = "error", http.status, http.body)

----------------------------------------------------------------------------
(* Inputs of the push notifications. *)

NotifyMessages ==
  {<<>>,
   <<"API", "Rate", "Limit", "exceeded">>,
   <<"RATE", "limit", "no", "subscribers">>,
   <<"All", "included", "players", "are", "not", "subscribed">>,
   <<"No", "Subscribers">>,
   <<"no", "Active", "subscriptions">>,
   <<"limit", "rate">>,
   <<"Invalid", "app_id">>}

NotifyElements ==
  {noElement, nullElement, otherElement("number"), otherElement("object")}
    \cup {textElement(words) : words \in NotifyMessages}

NotifyErrors ==
  {noErrors, errorsString, errorsObject("undefined", <<>>),
   errorsObject("array", <<>>), errorsObject("array", <<"u1">>),
   errorsObject("array", <<"u1", "u2">>),
   errorsObject("string", <<>>), errorsObject("string", <<"u", "1">>)}
    \cup {errorsArray(first) : first \in NotifyElements}

NotifyBodies ==
  {nullBody, stringBody}
    \cup {objectBody(id, errors) : id \in {noId, idOf(""), idOf("n-1")},
                                   errors \in NotifyErrors}

\* the outcomes of axios.post
HttpOutcomes ==
  {[kind |-> "response", status |-> 200, body |-> body] : body \in NotifyBodies}
    \cup {[kind |-> "error", status |-> status, body |-> body] :
            status \in {400, 401, 403, 429}, body \in NotifyBodies}
    \cup {[kind |-> "network", status |-> 0, body |-> nullBody]}

RequestedIds == {<<>>, <<"u1">>, <<"u1", "u2">>}

InitNotify ==
  /\ op = "init"
  /\ TextIdle
  /\ SleepIdle
  /\ utilArgs \in [http : HttpOutcomes, externalUserIds : RequestedIds]
  /\ utilResult = <<>>

CallPushToSpecificUsers ==
  /\ op = "init"
  /\ op' = "pushNotificationToSpecificUsers"
  /\ utilResult' = pushNotificationToSpecificUsers(utilArgs.http, utilArgs.externalUserIds)
  /\ UNCHANGED <<utilArgs, textVars, sleepVars>>

CallPushToAllUsers ==
  /\ op = "init"
  /\ op' = "pushNotificationToAllUsers"
  /\ utilResult' = pushNotificationToAllUsers(utilArgs.http)
  /\ UNCHANGED <<utilArgs, textVars, sleepVars>>

NextNotify == CallPushToSpecificUsers \/ CallPushToAllUsers

SpecNotify == InitNotify /\ [][NextNotify]_vars

----------------------------------------------------------------------------
(* The push notifications: properties. *)

\* the promise is resolved with an error envelope of the code
ErrorCode(code) ==
  /\ utilResult.settled = "resolved"
  /\ utilResult.value.status = "error"
  /\ utilResult.value.error.code = code

\* the promise is resolved with a success envelope of the id
SuccessWith(id) ==
  /\ utilResult.settled = "resolved"
  /\ utilResult.value = [status |-> "success", result |-> [id |-> id]]

\* the body's errors, when the body is an object
ErrorsOf(http) == IF http.body.kind = "object" THEN http.body.errors ELSE noErrors

\* the code the first message of an errors array gives
MessageCode(msg) ==
  IF includesWords(lowerWords(msg), <<"rate", "limit">>) THEN "rate_limit_exceeded"
  ELSE IF \/ includesWords(lowerWords(msg), <<"no", "subscribers">>)
          \/ includesWords(lowerWords(msg), <<"not", "subscribed">>)
          \/ includesWords(lowerWords(msg), <<"no", "active", "subscriptions">>)
       THEN "no_active_subscribers_found"
  ELSE "unknown_OneSignal_error"

C25_AllInvalidOrSuccess ==
  (op = "pushNotificationToSpecificUsers" /\ utilArgs.http.kind = "response")
    => LET body == utilArgs.http.body
           errors == ErrorsOf(utilArgs.http)
           invalidIds == IF errors.kind = "object" /\ errors.idsKind = "array"
                         THEN errors.ids ELSE <<>>
       IN IF body.id.type = "string" /\ body.id.text # ""
          THEN (errors.kind = "object" /\ errors.idsKind = "string")
               \/ IF invalidIds # <<>> /\ Len(invalidIds) = Len(utilArgs.externalUserIds)
                  THEN ErrorCode("invalid_external_user_ids")
                  ELSE SuccessWith(body.id.text)
          ELSE ErrorCode("ONESIGNAL_ERROR")

\* C26: whatever the outcome of the request, the promise of the two
\* functions is resolved, with an envelope of status 'success' or 'error'.
C26_NeverRejects ==
  op \in {"pushNotificationToSpecificUsers", "pushNotificationToAllUsers"}
    => /\ utilResult.settled = "resolved"
       /\ utilResult.value.status \in {"success", "error"}

----------------------------------------------------------------------------
(* A caller that resolves one slug after the other and stores each of them *)
(* before the next call.                                                    *)

RepeatSlugs ==
  {<<"a">>, <<"a", "-", "1">>, <<"a", "-", "2">>, <<"a", "1">>, <<"a", "-", "1", "-", "1">>}

\* db.posts.create({ title, slug: uniqueSlug }): the slug joins the existing ones
created(existing, uniqueSlug) == Append(existing, uniqueSlug)

\* utilArgs is the list the caller started from, utilResult the slugs
\* returned so far
InitRepeat ==
  /\ op = "init"
  /\ textType = "string"
  /\ text = <<>>
  /\ separator \in UniqueSeparators
  /\ allowDots = FALSE
  /\ allowedSpecialChars = <<>>
  /\ existingSlugs \in Strings(RepeatSlugs, MaxExisting)
  /\ result = <<>>
  /\ valid = FALSE
  /\ thrown = FALSE
  /\ lastIndex = 0
  /\ caller = 1
  /\ calls = 0
  /\ SleepIdle
  /\ utilArgs = existingSlugs
  /\ utilResult = <<>>

CreatePost ==
  /\ calls < MaxCalls
  /\ op' = "createPost"
  /\ calls' = calls + 1
  /\ text' \in BaseSlugs
  /\ result' = generateUniqueSlug(text', existingSlugs, separator)
  /\ existingSlugs' = created(existingSlugsAfter(existingSlugs, result'), result')
  /\ utilResult' = Append(utilResult, result')
  /\ thrown' = FALSE
  /\ UNCHANGED <<textType, separator, allowDots, allowedSpecialChars, valid, lastIndex,
               caller, sleepVars, utilArgs>>

NextRepeat == CreatePost

SpecRepeat == InitRepeat /\ [][NextRepeat]_vars

\* C27: a caller that starts from any list S and calls generateUniqueSlug
\* again and again, with any base each time, and adds each result to S before
\* the next call, never gets a slug that is in S already: the slugs returned
\* are pairwise distinct, none of them is in the list the caller started
\* from, and two equal elements of S both come from that list.
C27_RepeatedCallsDistinct ==
  /\ \A i, j \in 1..Len(utilResult) : utilResult[i] = utilResult[j] => i = j
  /\ \A i \in 1..Len(utilResult) : ~\E k \in 1..Len(utilArgs) : utilArgs[k] = utilResult[i]
  /\ \A i, j \in 1..Len(existingSlugs) :
       (i < j /\ existingSlugs[i] = existingSlugs[j]) => j <= Len(utilArgs)
  /\ existingSlugs = utilArgs \o utilResult

\* three calls, for the bases a, a and a-1, starting from a list that holds
\* both bases
C27_Witness ==
  /\ op = "createPost"
  /\ calls = 3
  /\ utilArgs = <<<<"a">>, <<"a", "-", "1">>>>
  /\ separator = <<"-">>
  /\ utilResult = <<<<"a", "-", "2">>, <<"a", "-", "3">>, <<"a", "-", "1", "-", "1">>>>

----------------------------------------------------------------------------
(* The sleep calls with a timer that fires: the event loop runs the        *)
(* callback of every timer that setTimeout has scheduled.                   *)

SpecSleepFair == SpecSleep /\ WF_vars(TimerFires)

Settled == promise \in {"resolved", "rejected"}

\* C28: the promise of a sleep call settles exactly once: a resolved promise
\* carries no error and a rejected one has no timer left that would resolve
\* it, a settled promise never changes, and, the scheduled timer firing,
\* every call made leads to a settled promise.
C28_SettlesExactlyOnce ==
  /\ [](promise = "resolved" => error = "")
  /\ [](promise = "rejected" => (error # "" /\ timers = <<>>))
  /\ [][Settled => (promise' = promise /\ error' = error)]_vars
  /\ (op \in {"sleep", "sleepUntil"}) ~> Settled

\* a timer was scheduled, it has fired and the promise is resolved
C28_Witness ==
  /\ op = "timeout"
  /\ timers # <<>>
  /\ promise = "resolved"
  /\ error = ""

----------------------------------------------------------------------------
(* The modes of sleep: properties. *)

\* the parameters with the fields of one mode only
OnlyMode(p, mode) ==
  IF mode = "until" THEN [noParams("object") EXCEPT !.until = p.until]
  ELSE IF mode = "random" THEN [noParams("object") EXCEPT !.random = p.random]
  ELSE [noParams("object") EXCEPT !.milliseconds = p.milliseconds,
                                   !.seconds = p.seconds,
                                   !.minutes = p.minutes]

\* the mode that decides when the until mode is that of every timestamp
\* given that is not zero
ModeOfNonZero(p) ==
  IF untilTimestamp(p).kind # "undefined" /\ ~IsZero(untilTimestamp(p)) THEN "until"
  ELSE IF p.random.present THEN "random"
  ELSE "fixed"

\* the mode that decides when the until mode is that of every timestamp that
\* is neither zero nor NaN
ModeOfTruthy(p) ==
  IF untilTimestamp(p).kind = "number" /\ ~IsZero(untilTimestamp(p)) THEN "until"
  ELSE IF p.random.present THEN "random"
  ELSE "fixed"

FixedErrors ==
  {"Milliseconds cannot be negative", "Seconds cannot be negative",
   "Minutes cannot be negative"}

\* the call made has the outcome of the call with the fields of the mode alone
DecidedBy(mode) ==
  LET alone == sleep(OnlyMode(params, mode), dateNow, mathRandom)
  IN /\ promise = alone.promise
     /\ timers = alone.timers
     /\ mode # "fixed" => error \notin FixedErrors

\* C29: one mode decides the delay of a sleep call, until (a timestamp that
\* is not zero) before random before the fixed fields: the call has the
\* outcome of the call with the fields of that mode alone, and a negative
\* fixed field next to until or random does not make it reject.
C29_OneModeDecides ==
  (op \in {"sleep", "sleepUntil"} /\ params.kind = "object")
    => DecidedBy(ModeOfNonZero(params))

\* C29, amended: one mode decides the delay of a sleep call, until (a
\* timestamp that is neither zero nor NaN) before random before the fixed
\* fields: the call has the outcome of the call with the fields of that mode
\* alone, and a negative fixed field next to until or random does not make
\* it reject.
C29_OneModeDecidesTruthy ==
  (op \in {"sleep", "sleepUntil"} /\ params.kind = "object")
    => DecidedBy(ModeOfTruthy(params))

\* until one second from now, next to a random range and a negative
\* milliseconds: the timer is that of until
C29_Witness ==
  /\ op = "sleep"
  /\ params.until = [present |-> TRUE, unixTimestamp |-> Number(6)]
  /\ params.random.present
  /\ params.milliseconds = Number(-1)
  /\ dateNow = Number(5000)
  /\ promise = "pending"
  /\ timers = <<Number(1000)>>

----------------------------------------------------------------------------
(* The loop of generateUniqueSlug: properties. *)

\* C30: generateUniqueSlug ends for every existingSlugs: the body of its
\* counter loop runs at most as many times as existingSlugs has elements, and
\* the suffix N of the slug returned is at most the length of existingSlugs.
C30_SuffixAtMostLength ==
  (op = "generateUniqueSlug" /\ result # text)
    => LET iterations == loopIterations(text, existingSlugs, separator, 1)
       IN /\ iterations <= Len(existingSlugs)
          /\ result = text \o separator \o numberToString(iterations + 1)
          /\ \E N \in 1..Len(existingSlugs) :
               result = text \o separator \o numberToString(N)

\* the base and its first two suffixes are taken: the suffix is the length
C30_Witness ==
  /\ op = "generateUniqueSlug"
  /\ text = <<"a">>
  /\ separator = <<"-">>
  /\ existingSlugs = << <<"a", "-", "2">>, <<"a">>, <<"a", "-", "1">> >>
  /\ result = <<"a", "-", "3">>

====
